---- MODULE Spec2Model ----
(***************************************************************************)
(* cli-crypto-price: the concurrent price race of the two programs of the  *)
(* repository.                                                             *)
(*   impl = "main" : src/main.go            (range over the channel, no    *)
(*                                           deadline, no cancellation)    *)
(*   impl = "ctx"  : src/unnamed/part_000   (context, select with a 10 s   *)
(*                                           timer, wg.Wait, close, drain) *)
(* A price is a float64, kept as a record (see "float64 values"); the      *)
(* bounds PriceA and PriceC count hundredths of a dollar.                  *)
(* Strings that the code scans character by character are sequences of     *)
(* one-character strings.                                                  *)
(***************************************************************************)
EXTENDS Integers, Sequences, FiniteSets, Bags, TLC

VARIABLES impl, args, crypto, resp, apc, quote, ch, closed, wg, cancelled,
          deadlineAt, mpc, cpc, result, out, written, panicked, uin, uout

\* impl       which program runs: "main" or "ctx"
\* args       the positional arguments of the command
\* crypto     args[0] once the race has started
\* resp       what each provider answers if it answers (environment)
\* apc        each adapter goroutine: "idle", "get" (request in flight),
\*            "decode" (main.go: reading the body),
\*            "send" (quote built), "sent" (before wg.Done), "exit"
\* quote      the quote each adapter has built
\* ch         the buffered result channel, closed: close(ch) has run
\* wg         the WaitGroup counter
\* cancelled  cancel() of the shared context has run (part_000)
\* deadlineAt -1 until 10 s have passed since the start of the race, then
\*            the number of quotes that had been sent at that moment
\* mpc        the orchestrator: "cli", "range" (main.go), "select", "wait",
\*            "drain" (part_000), "ret" (returned to the CLI), "end"
\*            (line printed), "exited" (the process has ended)
\* cpc        the goroutine of main.go that waits and closes the channel
\* result     the result variable / return value of the orchestrator
\* out        what the CLI printed
\* written    history: the quotes in the order they were sent on ch
\* panicked   a send hit a closed channel
\* uin, uout  the argument and the result of one adapter or one parse
\*            function called on its own (UnitSpec); unused in a race
vars == <<impl, args, crypto, resp, apc, quote, ch, closed, wg, cancelled,
          deadlineAt, mpc, cpc, result, out, written, panicked, uin, uout>>

\* ------------------------------------------------------------------ bounds
\* latency the adapters of main.go measure around http.Get
Latency == 7

\* prices the providers quote in the race, in hundredths of a dollar
PriceA == 10000
PriceC == 4200050

\* ------------------------------------------------------- program constants
Impls == {"main", "ctx"}
Providers == {"CoinGecko", "CoinMarketCap", "CryptoCompare"}
NumAdapters == 3
\* mutant: a buffer one slot short of the number of producers
ChanCapShort == NumAdapters - 1
ChanCap == 3
StatusOK == 200

\* ------------------------------------------------------------- evaluation
\* F(v), with v evaluated a single time
Once(v, F(_)) == CHOOSE r \in {F(x) : x \in {v}} : TRUE

\* the sum of F(i) >= 0 over the i of S
Sum(S, F(_)) == BagCardinality([i \in S |-> F(i) + 1]) - Cardinality(S)

RECURSIVE Pow(_, _)
Pow(base, n) == IF n <= 0 THEN 1 ELSE base * Pow(base, n - 1)

Min(a, b) == IF a <= b THEN a ELSE b
Max(a, b) == IF a >= b THEN a ELSE b

\* ------------------------------------------- natural numbers of any size
\* The mantissa of a float64 has 53 bits and the decimal strings behind it
\* have any length, so naturals are kept as sequences of limbs: the digits
\* in base 2^LimbBits, the lowest first, no zero at the top; <<>> is 0.
\* The operations do not recurse over the limbs: carries are found by
\* looking back over the lower limbs. Their arguments are variables bound
\* by Once (or fields of such), never expressions.
LimbBits == 11
Pow2 == [r \in 0..LimbBits |-> Pow(2, r)]
Base == Pow2[LimbBits]

Limb(x, i) == IF i >= 1 /\ i <= Len(x) THEN x[i] ELSE 0

\* x without the zero limbs at its top
Trim(x) == SubSeq(x, 1, Cardinality({i \in 1..Len(x) : \E j \in i..Len(x) : x[j] # 0}))

RECURSIVE BigOfNat(_)
BigOfNat(n) == IF n = 0 THEN <<>> ELSE <<n % Base>> \o BigOfNat(n \div Base)

\* one round of carrying: every coefficient keeps its low part and takes
\* the high part of the one below
Reduce(c) == [j \in 1..(Len(c) + 1) |-> (Limb(c, j) % Base) + (Limb(c, j - 1) \div Base)]

\* the last round, for coefficients of at most Base: a carry enters limb j
\* when a limb below is Base and the limbs between are Base - 1
Ripple(c) ==
  Once({i \in 1..Len(c) : c[i] = Base}, LAMBDA full :
    [j \in 1..(Len(c) + 1) |->
       (Limb(c, j) + (IF \E i \in full : i < j /\ \A l \in (i + 1)..(j - 1) : c[l] = Base - 1
                        THEN 1 ELSE 0)) % Base])

\* the limbs of the natural with the coefficients c (each below 2^31)
Settle(coeff) ==
  Once(coeff, LAMBDA c :
    Once(Reduce(c), LAMBDA c1 :
      Once(Reduce(c1), LAMBDA c2 :
        Once(Reduce(c2), LAMBDA c3 :
          Once(Ripple(c3), LAMBDA r : Trim(r))))))

\* a + b
BigAdd(a, b) == Settle([j \in 1..Max(Len(a), Len(b)) |-> Limb(a, j) + Limb(b, j)])

\* x * c for c < 2^20
MulSmall(x, c) == Settle([j \in 1..Len(x) |-> x[j] * c])

\* a * b, for numbers of at most 512 limbs
BigMul(a, b) ==
  Settle([k \in 1..(Len(a) + Len(b) - 1) |->
            Sum(Max(1, k + 1 - Len(b))..Min(k, Len(a)), LAMBDA i : a[i] * b[k + 1 - i])])

\* a <= b
BigLeq(a, b) ==
  \/ Len(a) < Len(b)
  \/ /\ Len(a) = Len(b)
     /\ ~\E i \in 1..Len(a) : a[i] > b[i] /\ \A j \in (i + 1)..Len(a) : a[j] = b[j]

\* a - b for a >= b: a borrow enters limb j when a limb below is short and
\* the limbs between are even
BigSub(a, b) ==
  Once([j \in 1..Len(a) |-> a[j] - Limb(b, j)], LAMBDA t :
    Once({i \in 1..Len(t) : t[i] < 0}, LAMBDA short :
      Once([j \in 1..Len(t) |->
              (t[j] + Base
                 - (IF \E i \in short : i < j /\ \A l \in (i + 1)..(j - 1) : t[l] = 0
                      THEN 1 ELSE 0)) % Base], LAMBDA r : Trim(r))))

\* base^n for a small base
RECURSIVE PowBig(_, _)
PowBig(base, n) ==
  IF n <= 0 THEN <<1>>
  ELSE Once(PowBig(base, n \div 2), LAMBDA h :
         Once(BigMul(h, h), LAMBDA sq : IF n % 2 = 1 THEN MulSmall(sq, base) ELSE sq))

\* the number of bits of x
RECURSIVE LimbLen(_)
LimbLen(n) == IF n = 0 THEN 0 ELSE 1 + LimbLen(n \div 2)
BitLen(x) == IF x = <<>> THEN 0 ELSE (LimbBits * (Len(x) - 1)) + LimbLen(x[Len(x)])

\* x * Base^j
ShiftLimbs(x, j) == IF x = <<>> THEN <<>> ELSE [i \in 1..j |-> 0] \o x

\* x * 2^n
ShiftLeft(x, n) ==
  Once(n % LimbBits, LAMBDA r :
    Once([j \in 1..(Len(x) + 1) |->
            ((Limb(x, j) * Pow2[r]) % Base) + (Limb(x, j - 1) \div Pow2[LimbBits - r])],
         LAMBDA high :
      Once(Trim(high), LAMBDA y : ShiftLimbs(y, n \div LimbBits))))

\* x \div 2^n
ShiftRight(x, n) ==
  Once(n \div LimbBits, LAMBDA d :
    Once(n % LimbBits, LAMBDA r :
      Once([j \in 1..(Len(x) - d) |->
              (Limb(x, j + d) \div Pow2[r])
                + ((Limb(x, j + d + 1) % Pow2[r]) * Pow2[LimbBits - r])], LAMBDA low :
        Trim(low))))

\* bit i of x (bit 0 is the lowest), and whether the n lowest bits are 0
BitAt(x, i) == (Limb(x, (i \div LimbBits) + 1) \div Pow2[i % LimbBits]) % 2
LowBitsZero(x, n) ==
  /\ \A j \in 1..(n \div LimbBits) : Limb(x, j) = 0
  /\ (Limb(x, (n \div LimbBits) + 1) % Pow2[n % LimbBits]) = 0

\* the number of zero bits at the low end of x > 0
RECURSIVE LimbZeros(_)
LimbZeros(n) == IF (n % 2) = 1 THEN 0 ELSE 1 + LimbZeros(n \div 2)
TrailingZeros(x) ==
  Once(Cardinality({j \in 1..Len(x) : \A l \in 1..j : x[l] = 0}), LAMBDA z :
    (LimbBits * z) + LimbZeros(x[z + 1]))

\* the next limb of a quotient: n \div d for n < d * Base, the top limb of
\* d at least Base \div 2. The tops of n and d give a few candidates.
QuotLimb(n, d) ==
  Once((Limb(n, Len(d) + 1) * Base) + Limb(n, Len(d)), LAMBDA top :
    CHOOSE q \in (top \div (d[Len(d)] + 1))..Min(Base - 1, (top + 1) \div d[Len(d)]) :
      /\ Once(MulSmall(d, q), LAMBDA below : BigLeq(below, n))
      /\ Once(MulSmall(d, q + 1), LAMBDA above : ~BigLeq(above, n)))

\* long division of n < d * Base^(j+1): the j + 1 limbs of the quotient and
\* the remainder
RECURSIVE DivAt(_, _, _)
DivAt(n, d, j) ==
  IF j < 0 THEN [q |-> <<>>, r |-> n]
  ELSE Once(ShiftLimbs(d, j), LAMBDA dj :
         Once(QuotLimb(n, dj), LAMBDA q :
           Once(MulSmall(dj, q), LAMBDA part :
             Once(BigSub(n, part), LAMBDA rest :
               Once(DivAt(rest, d, j - 1), LAMBDA lo : [q |-> lo.q \o <<q>>, r |-> lo.r])))))

\* n \div d for d > 0, and whether the division left a remainder
DivBig(n, d) ==
  Once((LimbBits - (BitLen(d) % LimbBits)) % LimbBits, LAMBDA z :
    Once(ShiftLeft(n, z), LAMBDA nz :
      Once(ShiftLeft(d, z), LAMBDA dz :
        Once(DivAt(nz, dz, Len(nz) - Len(dz)), LAMBDA res :
          [q |-> Trim(res.q), lost |-> res.r # <<>>]))))

\* ------------------------------------------------------ float64 values
\* A price is a float64: NaN, +Inf, -Inf ([k |-> "inf"], s the sign), or
\* the finite value s * m * 2^e with s the sign (0 for the value 0), m an
\* odd natural of at most 53 bits and e >= -1074, which is one record for
\* each float64. -0 is kept as 0: Go's == and > do not tell them apart.
Float(sign, m, e) == [k |-> "fin", s |-> sign, m |-> m, e |-> e]
Zero == Float(0, <<>>, 0)
Inf(sign) == [k |-> "inf", s |-> sign, m |-> <<>>, e |-> 0]
NaN == [k |-> "nan", s |-> 0, m |-> <<>>, e |-> 0]

\* x > 0, x <= 0 and x == 0 of Go on float64 (every comparison with NaN is
\* false)
Gt0(x) == x.k \in {"fin", "inf"} /\ x.s > 0
Le0(x) == x.k \in {"fin", "inf"} /\ x.s <= 0
IsZero(x) == x.k = "fin" /\ x.s = 0

\* the format: 53 bits of mantissa, the lowest bit of the smallest value is
\* 2^-1074, every value is below 2^1024
MantBits == 53
MinExp == 0 - 1074
MaxExp == 1024

\* the float64 sign * n * 2^x for n that needs no rounding; over when the
\* value is out of range
Exact(sign, n, x) ==
  IF n = <<>> THEN [over |-> FALSE, val |-> Zero]
  ELSE IF BitLen(n) + x > MaxExp THEN [over |-> TRUE, val |-> Inf(sign)]
  ELSE Once(TrailingZeros(n), LAMBDA z :
         [over |-> FALSE, val |-> Float(sign, ShiftRight(n, z), x + z)])

\* the float64 nearest to sign * (n + f) * 2^x, where 0 <= f < 1 and f > 0
\* iff lost; a tie goes to the even mantissa. With lost, n has more than
\* MantBits bits.
RoundFloat(sign, n, x, lost) ==
  Once(BitLen(n) + x - MantBits, LAMBDA low :
    Once(Max(low, MinExp) - x, LAMBDA drop :
      IF drop <= 0 THEN Exact(sign, n, x)
      ELSE Once(ShiftRight(n, drop), LAMBDA kept :
             Once(/\ BitAt(n, drop - 1) = 1
                  /\ (lost \/ ~LowBitsZero(n, drop - 1) \/ BitAt(kept, 0) = 1), LAMBDA up :
               Once(IF up THEN BigAdd(kept, <<1>>) ELSE kept, LAMBDA m :
                 Exact(sign, m, x + drop))))))

\* the float64 nearest to sign * d / 5^n * 2^x: the quotient is taken to 64
\* bits or more, what is left below it is told to the rounding
RoundQuotient(sign, d, n, x) ==
  Once(PowBig(5, n), LAMBDA p :
    Once(MantBits + LimbBits + BitLen(p) - BitLen(d), LAMBDA up :
      Once(ShiftLeft(d, Max(up, 0)), LAMBDA num :
        Once(ShiftLeft(p, Max(0 - up, 0)), LAMBDA den :
          Once(DivBig(num, den), LAMBDA r : RoundFloat(sign, r.q, x - up, r.lost))))))

\* the float64 nearest to sign * d * 10^e. 10^e lies between 8^e and 16^e,
\* which settles the values far out of range without computing them.
FloatOfDecimal(sign, d, e) ==
  IF d = <<>> THEN [over |-> FALSE, val |-> Zero]
  ELSE IF e >= 0 /\ BitLen(d) + (3 * e) > MaxExp THEN [over |-> TRUE, val |-> Inf(sign)]
  ELSE IF e < 0 /\ BitLen(d) + (3 * e) < MinExp - 2 THEN [over |-> FALSE, val |-> Zero]
  ELSE IF e >= 0
    THEN Once(PowBig(5, e), LAMBDA p :
           Once(BigMul(d, p), LAMBDA n : RoundFloat(sign, n, e, FALSE)))
  ELSE RoundQuotient(sign, d, 0 - e, e)

\* the float64 of a JSON number given in hundredths
Hundredths(n) ==
  Once(BigOfNat(IF n < 0 THEN 0 - n ELSE n), LAMBDA d :
    FloatOfDecimal(IF n < 0 THEN 0 - 1 ELSE 1, d, 0 - 2).val)

\* ------------------------------------------------- fmt.Sscanf(s, "%f", &p)
Digits == {"0", "1", "2", "3", "4", "5", "6", "7", "8", "9"}
HexLetters == {"a", "b", "c", "d", "e", "f", "A", "B", "C", "D", "E", "F"}
Signs == {"+", "-"}
\* the blanks SkipSpace passes over: Go's isSpace without the newline, which
\* ends the scan with an error. After the space these are tab, carriage
\* return, form feed, vertical tab, U+0085, U+00A0 and U+1680; the blanks
\* U+2000 to U+200A, U+2028, U+2029, U+202F, U+205F and U+3000 cannot be
\* written in a string of this notation and are left out.
Blanks == {" ", "\t", "\r", "\f", "", "", " ", " "}
Newline == "\n"

DigitVal(c) ==
  CASE c = "0" -> 0 [] c = "1" -> 1 [] c = "2" -> 2 [] c = "3" -> 3 [] c = "4" -> 4
    [] c = "5" -> 5 [] c = "6" -> 6 [] c = "7" -> 7 [] c = "8" -> 8 [] c = "9" -> 9
    [] c \in {"a", "A"} -> 10 [] c \in {"b", "B"} -> 11 [] c \in {"c", "C"} -> 12
    [] c \in {"d", "D"} -> 13 [] c \in {"e", "E"} -> 14 [] c \in {"f", "F"} -> 15

\* the character at position i, "" past the end
At(s, i) == IF i >= 1 /\ i <= Len(s) THEN s[i] ELSE ""
B2N(x) == IF x THEN 1 ELSE 0

\* ss.SkipSpace with nlIsSpace false: the index of the first character that
\* is not a blank, 0 when a newline is met first
RECURSIVE SkipSpace(_, _)
SkipSpace(s, i) ==
  IF i > Len(s) THEN i
  ELSE IF s[i] = Newline THEN 0
  ELSE IF s[i] \in Blanks THEN SkipSpace(s, i + 1)
  ELSE i

\* the index after the run of characters of set that starts at i
RECURSIVE RunEnd(_, _, _)
RunEnd(s, i, set) ==
  IF i <= Len(s) /\ s[i] \in set THEN RunEnd(s, i + 1, set) ELSE i

\* ss.floatToken: the length of the token taken from the start of s
floatToken(s) ==
  LET n1 == At(s, 1) \in {"n", "N"}
      n2 == n1 /\ At(s, 2) \in {"a", "A"}
      n3 == n2 /\ At(s, 3) \in {"n", "N"}
      p1 == 1 + B2N(n1) + B2N(n2)
  IN Once(p1 + B2N(At(s, p1) \in Signs), LAMBDA p2 :
       LET i1 == At(s, p2) \in {"i", "I"}
           i2 == i1 /\ At(s, p2 + 1) \in {"n", "N"}
           i3 == i2 /\ At(s, p2 + 2) \in {"f", "F"}
       IN Once(p2 + B2N(i1) + B2N(i2), LAMBDA p3 :
            LET z == At(s, p3) = "0"
                x == z /\ At(s, p3 + 1) \in {"x", "X"}
                digs == IF x THEN Digits \cup HexLetters \cup {"_"} ELSE Digits \cup {"_"}
                exps == IF x THEN {"p", "P"} ELSE {"e", "E", "p", "P"}
            IN Once(RunEnd(s, p3 + B2N(z) + B2N(x), digs), LAMBDA p5 :
                 Once(IF At(s, p5) = "." THEN RunEnd(s, p5 + 1, digs) ELSE p5, LAMBDA p6 :
                   LET p7 == IF At(s, p6) \in exps
                               THEN RunEnd(s, p6 + 1 + B2N(At(s, p6 + 1) \in Signs),
                                           Digits \cup {"_"})
                               ELSE p6
                   IN IF n3 THEN 3 ELSE IF i3 THEN p2 + 2 ELSE p7 - 1))))

Lower(c) ==
  CASE c = "A" -> "a" [] c = "B" -> "b" [] c = "C" -> "c" [] c = "D" -> "d"
    [] c = "E" -> "e" [] c = "F" -> "f" [] c = "I" -> "i" [] c = "N" -> "n"
    [] c = "P" -> "p" [] c = "T" -> "t" [] c = "X" -> "x" [] c = "Y" -> "y"
    [] OTHER -> c
LowerSeq(s) == [i \in 1..Len(s) |-> Lower(s[i])]

StrInf == <<"i", "n", "f">>
StrInfinity == <<"i", "n", "f", "i", "n", "i", "t", "y">>
StrNan == <<"n", "a", "n">>

\* strconv's underscoreOK: an underscore stands between two digits, or
\* between a base prefix and a digit
RECURSIVE UnderscoreScan(_, _, _, _)
UnderscoreScan(s, i, saw, hex) ==
  IF i > Len(s) THEN saw # "_"
  ELSE IF s[i] \in Digits \/ (hex /\ s[i] \in HexLetters)
         THEN UnderscoreScan(s, i + 1, "0", hex)
  ELSE IF s[i] = "_"
         THEN saw = "0" /\ UnderscoreScan(s, i + 1, "_", hex)
  ELSE saw # "_" /\ UnderscoreScan(s, i + 1, "!", hex)

underscoreOK(s) ==
  LET t == IF At(s, 1) \in Signs THEN Tail(s) ELSE s
      pre == Len(t) >= 2 /\ t[1] = "0" /\ Lower(t[2]) \in {"b", "o", "x"}
  IN UnderscoreScan(t, IF pre THEN 3 ELSE 1, IF pre THEN "0" ELSE "^",
                    pre /\ Lower(t[2]) = "x")

\* the mantissa loop of readFloat: the index at which it stops
RECURSIVE MantEnd(_, _, _, _)
MantEnd(s, i, digs, sawdot) ==
  IF i > Len(s) THEN i
  ELSE IF s[i] = "_" THEN MantEnd(s, i + 1, digs, sawdot)
  ELSE IF s[i] = "." THEN (IF sawdot THEN i ELSE MantEnd(s, i + 1, digs, TRUE))
  ELSE IF s[i] \in digs THEN MantEnd(s, i + 1, digs, sawdot)
  ELSE i

\* the characters of s that are in set
Only(s, set) == SelectSeq(s, LAMBDA c : c \in set)

\* the value of the digit string in the given base: the value of its upper
\* half, moved up by the length of the lower half, plus that of the lower
RECURSIVE DigitsValue(_, _)
DigitsValue(str, base) ==
  Once(str, LAMBDA ds :
    IF Len(ds) <= 1 THEN BigOfNat(IF ds = <<>> THEN 0 ELSE DigitVal(ds[1]))
    ELSE Once(DigitsValue(SubSeq(ds, 1, Len(ds) - (Len(ds) \div 2)), base), LAMBDA hi :
           Once(DigitsValue(SubSeq(ds, Len(ds) - (Len(ds) \div 2) + 1, Len(ds)), base),
                LAMBDA lo :
             Once(PowBig(base, Len(ds) \div 2), LAMBDA p :
               Once(BigMul(hi, p), LAMBDA top : BigAdd(top, lo))))))

\* the exponent digits of readFloat: e stops growing at 10000
RECURSIVE ExpValue(_, _, _)
ExpValue(s, i, acc) ==
  IF i > Len(s) THEN acc
  ELSE IF s[i] = "_" THEN ExpValue(s, i + 1, acc)
  ELSE Once(IF acc < 10000 THEN 10 * acc + DigitVal(s[i]) ELSE acc, LAMBDA e :
         ExpValue(s, i + 1, e))

CountIn(s, set) == Cardinality({i \in 1..Len(s) : s[i] \in set})

NoFloat == [ok |-> FALSE, val |-> Zero]

\* what ParseFloat returns for a rounded value: a value out of range is an
\* error (ErrRange)
Ranged(r) == IF r.over THEN NoFloat ELSE [ok |-> TRUE, val |-> r.val]

\* strconv.ParseFloat(s, 64): ok is FALSE on a syntax error and on a value
\* out of range
ParseFloat(str) ==
  Once(str, LAMBDA s :
    LET neg == At(s, 1) = "-"
        i0 == 1 + B2N(At(s, 1) \in Signs)
        low == LowerSeq(s)
        body == SubSeq(low, i0, Len(s))
        hex == i0 + 2 <= Len(s) /\ s[i0] = "0" /\ Lower(s[i0 + 1]) = "x"
        digs == IF hex THEN Digits \cup HexLetters ELSE Digits
    IN IF body = StrInf \/ body = StrInfinity
         THEN [ok |-> TRUE, val |-> Inf(IF neg THEN 0 - 1 ELSE 1)]
       ELSE IF low = StrNan THEN [ok |-> TRUE, val |-> NaN]
       ELSE Once(MantEnd(s, IF hex THEN i0 + 2 ELSE i0, digs, FALSE), LAMBDA i2 :
         Once(SubSeq(s, IF hex THEN i0 + 2 ELSE i0, i2 - 1), LAMBDA mant :
           LET dots == {k \in 1..Len(mant) : mant[k] = "."}
               nfrac == IF dots = {} THEN 0
                        ELSE CountIn(SubSeq(mant, (CHOOSE k \in dots : TRUE) + 1, Len(mant)),
                                     digs)
               sawdigits == CountIn(mant, digs) > 0
               hasExp == Lower(At(s, i2)) = (IF hex THEN "p" ELSE "e")
               i3 == i2 + 1 + B2N(At(s, i2 + 1) \in Signs)
               expOK == i2 + 1 <= Len(s) /\ At(s, i3) \in Digits
           IN IF ~sawdigits THEN NoFloat
              ELSE IF hasExp /\ ~expOK THEN NoFloat
              ELSE IF hex /\ ~hasExp THEN NoFloat
              ELSE Once(IF hasExp THEN RunEnd(s, i3, Digits \cup {"_"}) ELSE i2, LAMBDA iend :
                LET unders == CountIn(SubSeq(s, 1, iend - 1), {"_"}) > 0
                    ex == IF hasExp
                            THEN (IF At(s, i2 + 1) = "-" THEN 0 - 1 ELSE 1)
                                   * ExpValue(SubSeq(s, i3, iend - 1), 1, 0)
                            ELSE 0
                IN IF unders /\ ~underscoreOK(SubSeq(s, 1, iend - 1)) THEN NoFloat
                   ELSE IF iend # Len(s) + 1 THEN NoFloat
                   ELSE Once(DigitsValue(Only(mant, digs), IF hex THEN 16 ELSE 10), LAMBDA m :
                     Once(IF neg THEN 0 - 1 ELSE 1, LAMBDA sign :
                       IF m = <<>> THEN [ok |-> TRUE, val |-> Zero]
                       ELSE IF hex
                         THEN Ranged(RoundFloat(sign, m, ex - 4 * nfrac, FALSE))
                         ELSE Ranged(FloatOfDecimal(sign, m, ex - nfrac))))))))

\* an int of Go (64 bits): neg tells the sign, mag is the magnitude
GoInt(neg, mag) == [neg |-> neg /\ mag # <<>>, mag |-> mag]
Two63 == PowBig(2, 63)

\* strconv.Atoi on the exponent of a p-token: a sign and decimal digits,
\* within -2^63 .. 2^63 - 1
Atoi(str) ==
  Once(str, LAMBDA s :
    Once(SubSeq(s, 1 + B2N(At(s, 1) \in Signs), Len(s)), LAMBDA ds :
      IF ds = <<>> \/ CountIn(ds, Digits) # Len(ds) THEN [ok |-> FALSE, val |-> GoInt(FALSE, <<>>)]
      ELSE Once(DigitsValue(ds, 10), LAMBDA mag :
             IF BigLeq(mag, Two63) /\ (mag # Two63 \/ At(s, 1) = "-")
               THEN [ok |-> TRUE, val |-> GoInt(At(s, 1) = "-", mag)]
               ELSE [ok |-> FALSE, val |-> GoInt(FALSE, <<>>)])))

\* the exponent math.Ldexp works with: t + k, computed in 64 bits, so that
\* it wraps around past the ends; told as "low" (below -1075: the result is
\* 0), "high" (above 1023: the result is infinite) or "in"
LdexpExp(t, k) ==
  IF Len(k.mag) <= 2
    THEN Once(t + ((IF k.neg THEN 0 - 1 ELSE 1) * (Limb(k.mag, 1) + (Base * Limb(k.mag, 2)))),
              LAMBDA e : IF e < 0 - 1075 THEN "low" ELSE IF e > 1023 THEN "high" ELSE "in")
  ELSE Once(BigOfNat(IF t < 0 THEN 0 - t ELSE t), LAMBDA off :
         Once(BigAdd(k.mag, off), LAMBDA far :
           IF k.neg THEN (IF t < 0 /\ ~BigLeq(far, Two63) THEN "high" ELSE "low")
           ELSE (IF t > 0 /\ BigLeq(Two63, far) THEN "low" ELSE "high")))

\* math.Ldexp(f, k): f * 2^k rounded to a float64, +-Inf above the range,
\* 0 below it
Ldexp(f, k) ==
  IF f.k # "fin" \/ f.s = 0 THEN f
  ELSE Once(LdexpExp(BitLen(f.m) + f.e - 1, k), LAMBDA r :
         IF r = "low" THEN Zero
         ELSE IF r = "high" THEN Inf(f.s)
         ELSE RoundFloat(f.s, f.m,
                         f.e + ((IF k.neg THEN 0 - 1 ELSE 1)
                                  * (Limb(k.mag, 1) + (Base * Limb(k.mag, 2)))),
                         FALSE).val)

\* ss.convertFloat: a token with a p and no x is mantissa p exponent
convertFloat(tok) ==
  LET ps == {i \in 1..Len(tok) : tok[i] = "p"}
      hasX == \E i \in 1..Len(tok) : tok[i] \in {"x", "X"}
  IN IF ps # {} /\ ~hasX
       THEN Once(CHOOSE i \in ps : \A j \in ps : i <= j, LAMBDA p :
              Once(ParseFloat(SubSeq(tok, 1, p - 1)), LAMBDA f :
                Once(Atoi(SubSeq(tok, p + 1, Len(tok))), LAMBDA k :
                  IF ~f.ok \/ ~k.ok THEN NoFloat
                  ELSE [ok |-> TRUE, val |-> Ldexp(f.val, k.val)])))
       ELSE ParseFloat(tok)

\* var price float64; fmt.Sscanf(s, "%f", &price): the price afterwards. It
\* stays 0 when the scan fails: a newline before the number, no input left,
\* a token that is no number or is out of range
Sscanf(str) ==
  Once(str, LAMBDA s :
    Once(SkipSpace(s, 1), LAMBDA i :
      IF i = 0 \/ i > Len(s) THEN Zero
      ELSE Once(SubSeq(s, i, Len(s)), LAMBDA rest :
             Once(SubSeq(rest, 1, floatToken(rest)), LAMBDA tok :
               Once(convertFloat(tok), LAMBDA r : IF r.ok THEN r.val ELSE Zero)))))

\* ------------------------------------------------------------ JSON bodies
\* A response body is one of
\*   [kind |-> "garbage"]                      not JSON
\*   [kind |-> "null"]                         null
\*   [kind |-> "map",  entries |-> f]          {"k": {"usd": f[k]}, ...}
\*   [kind |-> "list", items |-> s]            [{"price_usd": s[1]}, ...]
\*   [kind |-> "obj",  fields |-> s]           {s[1].key: s[1].val, ...},
\*                                             numbers under keys, in the
\*                                             order of the text
Garbage == [kind |-> "garbage"]
Null == [kind |-> "null"]
MapBody(f) == [kind |-> "map", entries |-> f]
ListBody(s) == [kind |-> "list", items |-> s]
ObjBody(s) == [kind |-> "obj", fields |-> s]
Field(key, val) == [key |-> key, val |-> val]
EmptyFn == [x \in {} |-> Zero]

\* the keys encoding/json takes for the field USD: the match ignores case
USDSpellings == {"USD", "USd", "UsD", "Usd", "uSD", "uSd", "usD", "usd"}

\* json decoding into map[string]CryptoPrice
DecodeMap(body) ==
  CASE body.kind = "map" -> [err |-> FALSE, val |-> body.entries]
    [] body.kind = "obj" /\ body.fields = <<>> -> [err |-> FALSE, val |-> EmptyFn]
    [] body.kind = "null" -> [err |-> FALSE, val |-> EmptyFn]
    [] OTHER -> [err |-> TRUE, val |-> EmptyFn]

\* json decoding into []CoinMarketCapResponse
DecodeList(body) ==
  CASE body.kind = "list" -> [err |-> FALSE, val |-> body.items]
    [] body.kind = "null" -> [err |-> FALSE, val |-> <<>>]
    [] OTHER -> [err |-> TRUE, val |-> <<>>]

\* json decoding into CryptoCompareResponse: a key that spells USD in any
\* case sets the field, the last one in the text wins, other keys are
\* ignored, without such a key the field stays 0; an object under such a
\* key is an UnmarshalTypeError
DecodeObj(body) ==
  CASE body.kind = "obj" ->
         LET hits == {i \in 1..Len(body.fields) : body.fields[i].key \in USDSpellings}
         IN [err |-> FALSE,
             val |-> IF hits = {} THEN Zero
                     ELSE body.fields[CHOOSE i \in hits : \A j \in hits : j <= i].val]
    [] body.kind = "map" ->
         [err |-> DOMAIN body.entries \cap USDSpellings # {}, val |-> Zero]
    [] body.kind = "null" -> [err |-> FALSE, val |-> Zero]
    [] OTHER -> [err |-> TRUE, val |-> Zero]

\* ------------------------------------------------------------- responses
\* What a provider answers to the GET: a transport failure, or a status
\* line with a body.
TransportErr == [kind |-> "err"]
Http(status, body) == [kind |-> "http", status |-> status, body |-> body]

\* identifiers: BadId holds a control character, so its URL does not parse
BadId == "bit\ncoin"
UrlOK(c) == c # BadId

\* -------------------------------------------------- adapters of main.go
PriceResult3(price, source, duration) ==
  [Price |-> price, Source |-> source, Duration |-> duration]

\* fetchCryptoPriceFromCoingecko: the quote it sends
fetchCryptoPriceFromCoingecko(c, r) ==
  IF ~UrlOK(c) \/ r.kind = "err" THEN PriceResult3(Zero, "CoinGecko", Latency)
  ELSE LET d == DecodeMap(r.body)
       IN IF d.err THEN PriceResult3(Zero, "CoinGecko", Latency)
          ELSE IF c \in DOMAIN d.val THEN PriceResult3(d.val[c], "CoinGecko", Latency)
          ELSE PriceResult3(Zero, "CoinGecko", Latency)

\* fetchCryptoPriceFromCoinMarketCap: the quote it sends
fetchCryptoPriceFromCoinMarketCap(c, r) ==
  IF ~UrlOK(c) \/ r.kind = "err" THEN PriceResult3(Zero, "CoinMarketCap", Latency)
  ELSE LET d == DecodeList(r.body)
       IN IF d.err THEN PriceResult3(Zero, "CoinMarketCap", Latency)
          ELSE IF Len(d.val) > 0 THEN PriceResult3(Sscanf(d.val[1]), "CoinMarketCap", Latency)
          ELSE PriceResult3(Zero, "CoinMarketCap", Latency)

\* fetchCryptoPriceFromCryptoCompare: the quote it sends
fetchCryptoPriceFromCryptoCompare(c, r) ==
  IF ~UrlOK(c) \/ r.kind = "err" THEN PriceResult3(Zero, "CryptoCompare", Latency)
  ELSE LET d == DecodeObj(r.body)
       IN IF d.err THEN PriceResult3(Zero, "CryptoCompare", Latency)
          ELSE PriceResult3(d.val, "CryptoCompare", Latency)

\* ------------------------------------------------ adapters of part_000
PriceResult2(price, source) == [Price |-> price, Source |-> source]

\* parseCoingecko: the set of results it can return (a Go map is ranged over
\* in an unspecified order, the first entry met is returned)
parseCoingecko(data) ==
  LET d == DecodeMap(data)
  IN IF d.err THEN {[price |-> Zero, err |-> TRUE]}
     ELSE IF DOMAIN d.val = {} THEN {[price |-> Zero, err |-> TRUE]}
     ELSE {[price |-> d.val[k], err |-> FALSE] : k \in DOMAIN d.val}

parseCoinMarketCap(data) ==
  LET d == DecodeList(data)
  IN IF d.err THEN {[price |-> Zero, err |-> TRUE]}
     ELSE IF Len(d.val) > 0 THEN {[price |-> Sscanf(d.val[1]), err |-> FALSE]}
     ELSE {[price |-> Zero, err |-> TRUE]}

parseCryptoCompare(data) ==
  LET d == DecodeObj(data)
  IN IF d.err THEN {[price |-> Zero, err |-> TRUE]}
     ELSE {[price |-> d.val, err |-> FALSE]}

parseFunc(source, data) ==
  CASE source = "CoinGecko" -> parseCoingecko(data)
    [] source = "CoinMarketCap" -> parseCoinMarketCap(data)
    [] source = "CryptoCompare" -> parseCryptoCompare(data)

\* mutant: the body's bytes reach parseFunc, as if the decoded body had been
\* marshalled instead of the decoder's method value
MarshalPassesBody(respBody) == [err |-> FALSE, data |-> respBody]

\* body := json.NewDecoder(resp.Body).Decode ; json.Marshal(body):
\* body is the decoder's method value, a func, which encoding/json cannot
\* marshal: the call returns an UnsupportedTypeError for every response.
MarshalDecodeMethod(respBody) == [err |-> TRUE, data |-> Garbage]

\* fetchCryptoPrice: the set of quotes it can send once http.Do has returned
\* (ctxErr: the request was abandoned because the context was cancelled)
fetchCryptoPrice(source, c, r, ctxErr) ==
  IF ~UrlOK(c) THEN {PriceResult2(Zero, source)}
  ELSE IF ctxErr \/ r.kind = "err" THEN {PriceResult2(Zero, source)}
  ELSE IF r.status # StatusOK THEN {PriceResult2(Zero, source)}
  ELSE LET m == MarshalDecodeMethod(r.body)
       IN IF m.err THEN {PriceResult2(Zero, source)}
          ELSE {IF pr.err THEN PriceResult2(Zero, source) ELSE PriceResult2(pr.price, source)
                  : pr \in parseFunc(source, m.data)}

\* the quotes adapter p of program i can send
AdapterQuotes(i, p, c, r, ctxErr) ==
  IF i = "ctx" THEN fetchCryptoPrice(p, c, r, ctxErr)
  ELSE CASE p = "CoinGecko" -> {fetchCryptoPriceFromCoingecko(c, r)}
         [] p = "CoinMarketCap" -> {fetchCryptoPriceFromCoinMarketCap(c, r)}
         [] p = "CryptoCompare" -> {fetchCryptoPriceFromCryptoCompare(c, r)}

\* --------------------------------------------------------- race inputs
Str9999900 == <<"9", "9", "9", "9", "9", ".", "0", "0">>

\* the float64 values of the JSON numbers the providers answer with
QuoteA == Hundredths(PriceA)
QuoteC == Hundredths(PriceC)
QuoteNegative == Hundredths(0 - 500)

GoodBody(p) ==
  CASE p = "CoinGecko" -> MapBody("bitcoin" :> QuoteA)
    [] p = "CoinMarketCap" -> ListBody(<<Str9999900>>)
    [] p = "CryptoCompare" -> ObjBody(<<Field("USD", QuoteC)>>)

\* bodies without a usable price: not JSON, an empty sequence, a negative
\* number
BadBody(p) ==
  CASE p = "CoinGecko" -> Garbage
    [] p = "CoinMarketCap" -> ListBody(<<>>)
    [] p = "CryptoCompare" -> ObjBody(<<Field("USD", QuoteNegative)>>)

RaceResponses(p) ==
  {TransportErr} \cup {Http(s, b) : s \in {StatusOK, 500}, b \in {GoodBody(p), BadBody(p)}}

ZeroResult(i) == IF i = "ctx" THEN PriceResult2(Zero, "") ELSE PriceResult3(Zero, "", 0)

Init ==
  /\ impl \in Impls
  /\ \/ /\ args = <<"bitcoin">>
        /\ resp \in [Providers -> UNION {RaceResponses(p) : p \in Providers}]
        /\ \A p \in Providers : resp[p] \in RaceResponses(p)
     \/ /\ args = <<>>
        /\ resp = [p \in Providers |-> TransportErr]
  /\ crypto = ""
  /\ apc = [p \in Providers |-> "idle"]
  /\ quote = [p \in Providers |-> ZeroResult(impl)]
  /\ ch = <<>>
  /\ closed = FALSE
  /\ wg = 0
  /\ cancelled = FALSE
  /\ deadlineAt = 0 - 1
  /\ mpc = "cli"
  /\ cpc = "idle"
  /\ result = ZeroResult(impl)
  /\ out = [kind |-> "none"]
  /\ written = <<>>
  /\ panicked = FALSE
  /\ uin = [kind |-> "none"]
  /\ uout = [kind |-> "none"]

\* the 10 s timer of the race has fired
Deadline == deadlineAt >= 0

\* ------------------------------------------------------------- the CLI
\* rootCmd.Run up to the call of fetchCryptoPriceConcurrently, and the start
\* of the race: make(chan, 3), wg.Add(3), the go statements
Run ==
  /\ mpc = "cli"
  /\ IF Len(args) < 1
       THEN /\ out' = [kind |-> "usage"]
            /\ mpc' = "end"
            /\ UNCHANGED <<crypto, apc, wg, cpc>>
       ELSE /\ crypto' = args[1]
            /\ wg' = NumAdapters
            /\ apc' = [p \in Providers |-> "get"]
            /\ cpc' = IF impl = "main" THEN "wait" ELSE "idle"
            /\ mpc' = IF impl = "main" THEN "range" ELSE "select"
            /\ UNCHANGED out
  /\ UNCHANGED <<uin, uout, impl, args, resp, quote, ch, closed, cancelled, deadlineAt,
                 result, written, panicked>>

\* mutant: the CLI tells the sentinel by its source instead of by its price
ReportBySource ==
  /\ mpc = "ret"
  /\ out' = IF result.Source # "None"
              THEN [kind |-> "success", crypto |-> crypto, result |-> result]
              ELSE [kind |-> "failure"]
  /\ mpc' = "end"
  /\ UNCHANGED <<uin, uout, impl, args, crypto, resp, apc, quote, ch, closed, wg, cancelled,
                 deadlineAt, cpc, result, written, panicked>>

\* mutant: the CLI accepts a price of 0
ReportNonNegative ==
  /\ mpc = "ret"
  /\ out' = IF Gt0(result.Price) \/ IsZero(result.Price)
              THEN [kind |-> "success", crypto |-> crypto, result |-> result]
              ELSE [kind |-> "failure"]
  /\ mpc' = "end"
  /\ UNCHANGED <<uin, uout, impl, args, crypto, resp, apc, quote, ch, closed, wg, cancelled,
                 deadlineAt, cpc, result, written, panicked>>

\* rootCmd.Run after the call: the success line or the failure message
Report ==
  /\ mpc = "ret"
  /\ out' = IF Gt0(result.Price)
              THEN [kind |-> "success", crypto |-> crypto, result |-> result]
              ELSE [kind |-> "failure"]
  /\ mpc' = "end"
  /\ UNCHANGED <<uin, uout, impl, args, crypto, resp, apc, quote, ch, closed, wg, cancelled,
                 deadlineAt, cpc, result, written, panicked>>

\* func main returns after rootCmd.Execute: the process ends and every
\* goroutine still running ends with it
Exit ==
  /\ mpc = "end"
  /\ mpc' = "exited"
  /\ UNCHANGED <<uin, uout, impl, args, crypto, resp, apc, quote, ch, closed, wg, cancelled,
                 deadlineAt, cpc, result, out, written, panicked>>

\* the process has not ended
Alive == mpc # "exited"

\* -------------------------------------------------------- the adapters
\* http.Get / http.Do returns. part_000 builds its quote at once (it never
\* reads the body) and http.Do returns the response only while the context
\* is not cancelled; main.go sends price 0 on an error and otherwise goes on
\* to read the body
AdapterRespond(p) ==
  /\ Alive
  /\ apc[p] = "get"
  /\ impl = "ctx" => ~cancelled
  /\ IF impl = "main" /\ UrlOK(crypto) /\ resp[p].kind # "err"
       THEN /\ apc' = [apc EXCEPT ![p] = "decode"]
            /\ UNCHANGED quote
       ELSE /\ \E q \in AdapterQuotes(impl, p, crypto, resp[p], FALSE) :
                 quote' = [quote EXCEPT ![p] = q]
            /\ apc' = [apc EXCEPT ![p] = "send"]
  /\ UNCHANGED <<uin, uout, impl, args, crypto, resp, ch, closed, wg, cancelled, deadlineAt,
                 mpc, cpc, result, out, written, panicked>>

\* main.go: json.NewDecoder(resp.Body).Decode returns, the body has come,
\* and the adapter builds its quote
AdapterDecode(p) ==
  /\ Alive
  /\ impl = "main"
  /\ apc[p] = "decode"
  /\ \E q \in AdapterQuotes(impl, p, crypto, resp[p], FALSE) :
       quote' = [quote EXCEPT ![p] = q]
  /\ apc' = [apc EXCEPT ![p] = "send"]
  /\ UNCHANGED <<uin, uout, impl, args, crypto, resp, ch, closed, wg, cancelled, deadlineAt,
                 mpc, cpc, result, out, written, panicked>>

\* part_000: http.Do returns the context's error after cancel()
AdapterAbandon(p) ==
  /\ Alive
  /\ impl = "ctx"
  /\ apc[p] = "get"
  /\ cancelled
  /\ \E q \in AdapterQuotes(impl, p, crypto, resp[p], TRUE) :
       quote' = [quote EXCEPT ![p] = q]
  /\ apc' = [apc EXCEPT ![p] = "send"]
  /\ UNCHANGED <<uin, uout, impl, args, crypto, resp, ch, closed, wg, cancelled, deadlineAt,
                 mpc, cpc, result, out, written, panicked>>

\* mutant: an error branch sends its quote and, lacking its return, falls
\* through to the next send
AdapterSendTwice(p) ==
  /\ Alive
  /\ apc[p] = "send"
  /\ IF closed
       THEN /\ panicked' = TRUE
            /\ apc' = [apc EXCEPT ![p] = "exit"]
            /\ UNCHANGED <<ch, written>>
       ELSE /\ Len(ch) < ChanCap
            /\ ch' = IF Len(ch) + 2 <= ChanCap
                       THEN Append(Append(ch, quote[p]), quote[p])
                       ELSE Append(ch, quote[p])
            /\ written' = IF Len(ch) + 2 <= ChanCap
                            THEN Append(Append(written, quote[p]), quote[p])
                            ELSE Append(written, quote[p])
            /\ apc' = [apc EXCEPT ![p] = "sent"]
            /\ UNCHANGED panicked
  /\ UNCHANGED <<uin, uout, impl, args, crypto, resp, quote, closed, wg, cancelled, deadlineAt,
                 mpc, cpc, result, out>>

\* ch <- PriceResult{...}: blocks while the buffer is full, panics on a
\* closed channel
AdapterSend(p) ==
  /\ Alive
  /\ apc[p] = "send"
  /\ IF closed
       THEN /\ panicked' = TRUE
            /\ apc' = [apc EXCEPT ![p] = "exit"]
            /\ UNCHANGED <<ch, written>>
       ELSE /\ Len(ch) < ChanCap
            /\ ch' = Append(ch, quote[p])
            /\ written' = Append(written, quote[p])
            /\ apc' = [apc EXCEPT ![p] = "sent"]
            /\ UNCHANGED panicked
  /\ UNCHANGED <<uin, uout, impl, args, crypto, resp, quote, closed, wg, cancelled, deadlineAt,
                 mpc, cpc, result, out>>

\* defer wg.Done()
AdapterDone(p) ==
  /\ Alive
  /\ apc[p] = "sent"
  /\ wg' = wg - 1
  /\ apc' = [apc EXCEPT ![p] = "exit"]
  /\ UNCHANGED <<uin, uout, impl, args, crypto, resp, quote, ch, closed, cancelled, deadlineAt,
                 mpc, cpc, result, out, written, panicked>>

\* ----------------------------------------------------- the wall clock
\* ten seconds have passed since the race started, while the orchestrator
\* is still in fetchCryptoPriceConcurrently; deadlineAt records how many
\* quotes had been sent by then
Tick ==
  /\ mpc \in {"range", "select", "wait", "drain"}
  /\ ~Deadline
  /\ deadlineAt' = Len(written)
  /\ UNCHANGED <<uin, uout, impl, args, crypto, resp, apc, quote, ch, closed, wg, cancelled,
                 mpc, cpc, result, out, written, panicked>>

\* ------------------------------------------- main.go: the orchestrator
\* mutant: the helper goroutine closes the channel without wg.Wait()
CloserNoWait ==
  /\ Alive
  /\ impl = "main"
  /\ cpc = "wait"
  /\ closed' = TRUE
  /\ cpc' = "exit"
  /\ UNCHANGED <<uin, uout, impl, args, crypto, resp, apc, quote, ch, wg, cancelled, deadlineAt,
                 mpc, result, out, written, panicked>>

\* go func() { wg.Wait(); close(ch) }()
Closer ==
  /\ Alive
  /\ impl = "main"
  /\ cpc = "wait"
  /\ wg = 0
  /\ closed' = TRUE
  /\ cpc' = "exit"
  /\ UNCHANGED <<uin, uout, impl, args, crypto, resp, apc, quote, ch, wg, cancelled, deadlineAt,
                 mpc, result, out, written, panicked>>

\* mutant: the orchestrator takes the quote buffered last instead of the one
\* buffered first
RangeRecvLast ==
  /\ impl = "main"
  /\ mpc = "range"
  /\ Len(ch) > 0
  /\ ch' = SubSeq(ch, 1, Len(ch) - 1)
  /\ IF Gt0(ch[Len(ch)].Price)
       THEN result' = ch[Len(ch)] /\ mpc' = "ret"
       ELSE UNCHANGED <<result, mpc>>
  /\ UNCHANGED <<uin, uout, impl, args, crypto, resp, apc, quote, closed, wg, cancelled,
                 deadlineAt, cpc, out, written, panicked>>

\* for result := range ch { if Gt0(result.Price) { return result } }
RangeRecv ==
  /\ impl = "main"
  /\ mpc = "range"
  /\ Len(ch) > 0
  /\ ch' = Tail(ch)
  /\ IF Gt0(Head(ch).Price)
       THEN result' = Head(ch) /\ mpc' = "ret"
       ELSE UNCHANGED <<result, mpc>>
  /\ UNCHANGED <<uin, uout, impl, args, crypto, resp, apc, quote, closed, wg, cancelled,
                 deadlineAt, cpc, out, written, panicked>>

\* the range ends on the closed, drained channel:
\* return PriceResult{0, "None", 0}
RangeEnd ==
  /\ impl = "main"
  /\ mpc = "range"
  /\ ch = <<>>
  /\ closed
  /\ result' = PriceResult3(Zero, "None", 0)
  /\ mpc' = "ret"
  /\ UNCHANGED <<uin, uout, impl, args, crypto, resp, apc, quote, ch, closed, wg, cancelled,
                 deadlineAt, cpc, out, written, panicked>>

\* ------------------------------------------ part_000: the orchestrator
\* select { case result = <-ch: cancel() ...
SelectRecv ==
  /\ impl = "ctx"
  /\ mpc = "select"
  /\ Len(ch) > 0
  /\ result' = Head(ch)
  /\ ch' = Tail(ch)
  /\ cancelled' = TRUE
  /\ mpc' = "wait"
  /\ UNCHANGED <<uin, uout, impl, args, crypto, resp, apc, quote, closed, wg, deadlineAt, cpc,
                 out, written, panicked>>

\* ... case <-time.After(10 * time.Second): cancel() }
SelectTimeout ==
  /\ impl = "ctx"
  /\ mpc = "select"
  /\ Deadline
  /\ cancelled' = TRUE
  /\ mpc' = "wait"
  /\ UNCHANGED <<uin, uout, impl, args, crypto, resp, apc, quote, ch, closed, wg, deadlineAt,
                 cpc, result, out, written, panicked>>

\* mutant: the channel is closed without waiting for the adapters
WaitCloseNoWait ==
  /\ impl = "ctx"
  /\ mpc = "wait"
  /\ closed' = TRUE
  /\ mpc' = "drain"
  /\ UNCHANGED <<uin, uout, impl, args, crypto, resp, apc, quote, ch, wg, cancelled, deadlineAt,
                 cpc, result, out, written, panicked>>

\* wg.Wait(); close(ch)
WaitClose ==
  /\ impl = "ctx"
  /\ mpc = "wait"
  /\ wg = 0
  /\ closed' = TRUE
  /\ mpc' = "drain"
  /\ UNCHANGED <<uin, uout, impl, args, crypto, resp, apc, quote, ch, wg, cancelled, deadlineAt,
                 cpc, result, out, written, panicked>>

\* for priceResult := range ch { if Gt0(priceResult.Price) { result =
\* priceResult; break } }: one received quote
DrainRecv ==
  /\ impl = "ctx"
  /\ mpc = "drain"
  /\ Len(ch) > 0
  /\ ch' = Tail(ch)
  /\ IF Gt0(Head(ch).Price)
       THEN result' = Head(ch) /\ mpc' = "ret"
       ELSE UNCHANGED <<result, mpc>>
  /\ UNCHANGED <<uin, uout, impl, args, crypto, resp, apc, quote, closed, wg, cancelled,
                 deadlineAt, cpc, out, written, panicked>>

\* the drain ends on the empty closed channel: return result
DrainEnd ==
  /\ impl = "ctx"
  /\ mpc = "drain"
  /\ ch = <<>>
  /\ mpc' = "ret"
  /\ UNCHANGED <<uin, uout, impl, args, crypto, resp, apc, quote, ch, closed, wg, cancelled,
                 deadlineAt, cpc, result, out, written, panicked>>

Next ==
  \/ Run
  \/ Report
  \/ Exit
  \/ \E p \in Providers : AdapterRespond(p)
  \/ \E p \in Providers : AdapterDecode(p)
  \/ \E p \in Providers : AdapterAbandon(p)
  \/ \E p \in Providers : AdapterSend(p)
  \/ \E p \in Providers : AdapterDone(p)
  \/ Tick
  \/ Closer
  \/ RangeRecv
  \/ RangeEnd
  \/ SelectRecv
  \/ SelectTimeout
  \/ WaitClose
  \/ DrainRecv
  \/ DrainEnd

Spec == Init /\ [][Next]_vars

\* ------------------------------------------------ one call on its own
\* An adapter, or a parse function of part_000, called once on an input
\* drawn from a wider set of identifiers, statuses and bodies.
MaxItems == 2
Keys == {"bitcoin", "ethereum"}
Ids == Keys \cup {BadId}
Statuses == {StatusOK, 404, 500}
StrAbc == <<"a", "b", "c">>
StrNeg == <<"-", "5">>
StrLead == <<" ", "4", "2", ".", "5">>
UnitStrings ==
  {Str9999900, StrAbc, StrNeg, StrLead, <<>>,
   <<"1", "e", "3">>, <<"1", ".", "2", "e", "-", "0", "5">>, <<"5", "e">>,
   <<"I", "n", "f">>, <<"I", "n", "f", "i", "n", "i", "t", "y">>, <<"-", "i", "n", "f">>,
   <<"N", "a", "N">>, <<"0", ".", "0", "0", "1">>, <<"1", "_", "0", "0", "0">>,
   <<"\t", "5">>, <<"\n", "5">>, <<"0", "x", "1", "p", "4">>, <<"1", "p", "4">>,
   <<"1", "e", "9", "9", "9">>, <<"1", "p", "1", "0", "2", "4">>, <<"1", "2", "a", "b", "c">>,
   <<"", "5">>, <<" ", "5">>, <<"2", "1", "4", "7", "4", "8", "3", "6", "4", "8">>,
   <<"1", "0", "0", "0", "0", "0", "0", "0", "0", "0", "e", "2", "9", "9">>,
   <<"2", "0", "0", "0", "0", "0", "0", "0", "0", "0", "e", "-", "3", "3", "3">>,
   <<"1", ".", "5", "p", "1", "0", "2", "4">>, <<"1", ".", "5", "p", "-", "1", "0", "7", "5">>,
   <<"0", ".", "5", "p", "-", "9", "2", "2", "3", "3", "7", "2", "0", "3", "6", "8", "5", "4",
     "7", "7", "5", "8", "0", "8">>}
WideBodies ==
  {Garbage, Null}
    \cup {MapBody(f) : f \in UNION {[K -> {Zero, QuoteA}] : K \in SUBSET Keys}}
    \cup {MapBody("USD" :> QuoteA)}
    \cup {ListBody(<<>>)}
    \cup {ListBody(<<first>> \o [i \in 1..n |-> Str9999900]) :
             first \in UnitStrings, n \in 0..(MaxItems - 1)}
    \cup {ObjBody(<<>>)}
    \cup {ObjBody(<<Field(key, v)>>) :
             key \in {"USD", "usd", "Usd", "EUR"},
             v \in {Zero, QuoteC, QuoteNegative}}
    \cup {ObjBody(<<Field("USD", QuoteC), Field("usd", Hundredths(500))>>)}
WideResponses == {TransportErr} \cup {Http(st, b) : st \in Statuses, b \in WideBodies}

UnitInputs(i) ==
  [kind : {"adapter"}, provider : Providers, crypto : Ids, resp : WideResponses,
   ctxErr : IF i = "ctx" THEN BOOLEAN ELSE {FALSE}]
    \cup IF i = "ctx"
           THEN [kind : {"parse"}, provider : Providers, data : WideBodies]
           ELSE {}

UnitInit ==
  /\ impl \in Impls
  /\ uin \in UnitInputs(impl)
  /\ uout = [kind |-> "none"]
  /\ args = <<>>
  /\ resp = [p \in Providers |-> TransportErr]
  /\ crypto = ""
  /\ apc = [p \in Providers |-> "idle"]
  /\ quote = [p \in Providers |-> ZeroResult(impl)]
  /\ ch = <<>>
  /\ closed = FALSE
  /\ wg = 0
  /\ cancelled = FALSE
  /\ deadlineAt = 0 - 1
  /\ mpc = "cli"
  /\ cpc = "idle"
  /\ result = ZeroResult(impl)
  /\ out = [kind |-> "none"]
  /\ written = <<>>
  /\ panicked = FALSE

\* the adapter runs to its send: uout is the quote it puts on the channel
CallAdapter ==
  /\ uin.kind = "adapter"
  /\ uout.kind = "none"
  /\ \E q \in AdapterQuotes(impl, uin.provider, uin.crypto, uin.resp, uin.ctxErr) :
       uout' = [kind |-> "quote", quote |-> q]
  /\ UNCHANGED <<uin, impl, args, crypto, resp, apc, quote, ch, closed, wg, cancelled,
                 deadlineAt, mpc, cpc, result, out, written, panicked>>

\* parseCoingecko, parseCoinMarketCap or parseCryptoCompare returns
CallParse ==
  /\ uin.kind = "parse"
  /\ uout.kind = "none"
  /\ \E r \in parseFunc(uin.provider, uin.data) :
       uout' = [kind |-> "parsed", price |-> r.price, err |-> r.err]
  /\ UNCHANGED <<uin, impl, args, crypto, resp, apc, quote, ch, closed, wg, cancelled,
                 deadlineAt, mpc, cpc, result, out, written, panicked>>

UnitNext == CallAdapter \/ CallParse

UnitSpec == UnitInit /\ [][UnitNext]_vars

\* Scheduling: every goroutine that can take a step eventually takes it and
\* the clock advances; a provider is free never to answer, so AdapterRespond
\* carries no fairness.
Fairness ==
  /\ WF_vars(Run)
  /\ WF_vars(Report)
  /\ WF_vars(Exit)
  /\ \A p \in Providers : WF_vars(AdapterAbandon(p))
  /\ \A p \in Providers : WF_vars(AdapterSend(p))
  /\ \A p \in Providers : WF_vars(AdapterDone(p))
  /\ WF_vars(Tick)
  /\ WF_vars(Closer)
  /\ WF_vars(RangeRecv)
  /\ WF_vars(RangeEnd)
  /\ WF_vars(SelectRecv)
  /\ WF_vars(SelectTimeout)
  /\ WF_vars(WaitClose)
  /\ WF_vars(DrainRecv)
  /\ WF_vars(DrainEnd)

FairSpec == Spec /\ Fairness

TypeOK ==
  /\ impl \in Impls
  /\ wg \in 0..NumAdapters
  /\ Len(ch) <= ChanCap
  /\ mpc \in {"cli", "range", "select", "wait", "drain", "ret", "end", "exited"}

\* ---------------------------------------------------------------- claims
\* a race was started
Raced == Len(args) > 0
\* fetchCryptoPriceConcurrently has returned
Returned == Raced /\ mpc \in {"ret", "end", "exited"}
\* the CLI has printed its line
Printed == mpc \in {"end", "exited"}
\* the quotes with price > 0, in the order the adapters sent them
Positive(q) == Gt0(q.Price)
PositiveWritten == SelectSeq(written, Positive)
\* no goroutine of the race is left: each has run to its end, or the process
\* has ended
AllExited ==
  \/ ~Alive
  \/ (\A p \in Providers : apc[p] = "exit") /\ cpc \in {"idle", "exit"}


\* what the provider's answer carries
SuppliesPositive(p) ==
  resp[p].kind = "http" /\ resp[p].status = StatusOK /\ resp[p].body = GoodBody(p)
SuppliesNothing(p) ==
  resp[p] = TransportErr \/ (resp[p].kind = "http" /\ resp[p].body = BadBody(p))
FailsImmediately(p) == resp[p] = TransportErr
QuoteB == Hundredths(100 * 99999)
GoodPrice(p) ==
  CASE p = "CoinGecko" -> QuoteA
    [] p = "CoinMarketCap" -> QuoteB
    [] p = "CryptoCompare" -> QuoteC

\* C1: when two adapters have each sent a quote with price > 0, the outcome
\* returned is the one of them that was sent first, whatever the two prices
\* are and whatever the third adapter did.
C1_FirstPositiveWins ==
  (Returned /\ Len(PositiveWritten) >= 2) => result = PositiveWritten[1]

\* two positive quotes were sent, the cheaper one first, the third adapter
\* sent its quote too, and the cheaper one was returned
C1_Witness ==
  /\ Returned
  /\ Len(written) = NumAdapters
  /\ Len(PositiveWritten) >= 2
  /\ PositiveWritten[1].Price = QuoteA
  /\ PositiveWritten[2].Price = QuoteC
  /\ PriceA < PriceC
  /\ result = PositiveWritten[1]

\* C2: when exactly one provider supplies a price > 0 and the two others
\* supply none, the outcome returned is that provider's quote, with its price
\* and its source, in every completion order.
C2_OnlyPositiveWins ==
  \A p \in Providers :
    (Returned /\ SuppliesPositive(p) /\ \A q \in Providers \ {p} : SuppliesNothing(q))
      => (result.Price = GoodPrice(p) /\ result.Source = p)

\* C3: end to end, when one provider answers 200 with a well-formed body of
\* price p > 0 and the two others fail immediately, the adapter sends a quote
\* of price p, the race returns it and the CLI prints the success line.
C3_EndToEnd ==
  \A p \in Providers :
    (Printed /\ SuppliesPositive(p) /\ \A q \in Providers \ {p} : FailsImmediately(q))
      => /\ \E i \in 1..Len(written) :
              written[i].Price = GoodPrice(p) /\ written[i].Source = p
         /\ out.kind = "success"
         /\ out.result.Price = GoodPrice(p)
         /\ out.result.Source = p

\* C4: when all three adapters have sent a quote with price <= 0, the outcome
\* returned has no price > 0 and the CLI prints the failure message.
C4_AllFailedNoQuote ==
  (Returned /\ Len(written) = NumAdapters
     /\ \A i \in 1..Len(written) : Le0(written[i].Price))
    => (~Gt0(result.Price) /\ (Printed => out.kind = "failure"))

\* the three adapters sent quotes without a price before the deadline, one of
\* them negative, and the failure message was printed
C4_Witness ==
  /\ Printed
  /\ ~Deadline
  /\ Len(written) = NumAdapters
  /\ \A i \in 1..Len(written) : Le0(written[i].Price)
  /\ \E i \in 1..Len(written) : written[i].Price.s < 0
  /\ out.kind = "failure"

\* C5: whenever the CLI takes the success branch, the result it reports has a
\* price > 0 and is, field by field, a quote that an adapter sent.
C5_WinnerWasSent ==
  out.kind = "success"
    => /\ out.result = result
       /\ Gt0(result.Price)
       /\ \E i \in 1..Len(written) : written[i] = result

\* the success line was printed after a quote without a price had been sent
\* before the winning one
C5_Witness ==
  /\ out.kind = "success"
  /\ Len(written) >= 2
  /\ Le0(written[1].Price)
  /\ Gt0(result.Price)

\* C6: when no adapter has completed by the 10 s deadline, the orchestrator
\* returns "no usable quote"; it has not returned before the deadline while
\* no adapter had completed, and it does return once the deadline has passed.
C6_DeadlineReturns ==
  /\ []((Returned /\ deadlineAt = 0) => ~Gt0(result.Price))
  /\ [](Returned => (Deadline \/ written # <<>>))
  /\ (Raced /\ deadlineAt = 0) ~> Returned

\* C7: every race eventually returns a result, also when providers never
\* answer.
C7_AlwaysReturns == (Raced /\ mpc # "cli") ~> Returned

\* C8: when the 10 s deadline elapsed before any quote with price > 0 had
\* been sent, the outcome returned has no price > 0: a quote with price > 0
\* that an adapter sends after the deadline, while the orchestrator has not
\* returned, is not the winner.  Stated of both programs: main.go has no
\* timer and takes such a quote in its range loop (RangeRecv); part_000 would
\* take it in its drain (DrainRecv), and does not only because none of its
\* quotes has a price > 0 (MarshalDecodeMethod).
C8_NoWinnerAfterDeadline ==
  (Returned /\ Deadline
     /\ \A i \in 1..deadlineAt : Le0(written[i].Price))
    => ~Gt0(result.Price)

\* C9: there is no state in which a winner (price > 0) has been selected and
\* the orchestrator has yet to return: selecting and returning are one step,
\* which the adapters still in flight cannot delay.
C9_NoWaitAfterWinner == Gt0(result.Price) => Returned

\* a winner was returned while another adapter's request was still in flight
C9_Witness ==
  /\ Returned
  /\ Gt0(result.Price)
  /\ \E p \in Providers : apc[p] = "get"

\* C10: once a winner is returned, cancellation has been signalled to the
\* adapters still in flight, and after the return every adapter goroutine
\* and the goroutine waiting on them eventually end, even when a provider
\* never answers.
C10_NoLeak ==
  /\ []((Returned /\ Gt0(result.Price)
           /\ \E p \in Providers : apc[p] \in {"get", "decode"}) => cancelled)
  /\ Returned ~> AllExited

\* C11: whenever the orchestrator has returned "no usable quote", every
\* adapter goroutine has finished: none is still in its request or about to
\* send on the channel.
C11_NoQuoteAfterAllDone ==
  (Returned /\ ~Gt0(result.Price)) => \A p \in Providers : apc[p] = "exit"

\* the deadline elapsed with nothing sent, the adapters were cancelled and
\* the orchestrator returned without a price
C11_Witness ==
  /\ Returned
  /\ Le0(result.Price)
  /\ deadlineAt = 0
  /\ cancelled
  /\ \A p \in Providers : apc[p] = "exit"

\* ------------------------------------------- claims on a single adapter
\* the quote of a failed request: price 0, the adapter's own name
IsZeroQuoteOf(q, p) == IsZero(q.Price) /\ q.Source = p

\* C12: an adapter that receives a status other than 200 sends a quote of
\* price 0 with its own provider name, whatever the body holds.
C12_Non200IsZero ==
  (uout.kind = "quote" /\ uin.resp.kind = "http" /\ uin.resp.status # StatusOK)
    => IsZeroQuoteOf(uout.quote, uin.provider)

\* the body fits the schema the provider's adapter decodes into
SchemaFits(p, body) ==
  \/ body.kind = "null"
  \/ CASE p = "CoinGecko" ->
            body.kind = "map" \/ (body.kind = "obj" /\ body.fields = <<>>)
       [] p = "CoinMarketCap" -> body.kind = "list"
       [] p = "CryptoCompare" ->
            \/ body.kind = "obj"
            \/ body.kind = "map" /\ DOMAIN body.entries \cap USDSpellings = {}

HasDigit(str) == \E i \in 1..Len(str) : str[i] \in Digits

\* a body of the right schema that holds no price for the identifier: no
\* entry for it, an empty sequence, a price field without a number, no key
\* that sets USD
LacksPrice(p, c, body) ==
  \/ body.kind = "null"
  \/ CASE p = "CoinGecko" -> body.kind = "obj" \/ c \notin DOMAIN body.entries
       [] p = "CoinMarketCap" -> body.items = <<>> \/ ~HasDigit(body.items[1])
       [] p = "CryptoCompare" ->
            \/ body.kind = "map"
            \/ \A i \in 1..Len(body.fields) : body.fields[i].key \notin USDSpellings

FailureMode(u) ==
  \/ ~UrlOK(u.crypto)
  \/ u.ctxErr
  \/ u.resp = TransportErr
  \/ /\ u.resp.kind = "http"
     /\ \/ ~SchemaFits(u.provider, u.resp.body)
        \/ LacksPrice(u.provider, u.crypto, u.resp.body)

\* C13: on every failure (request not built, transport error, cancelled
\* request, undecodable body, body without the expected price or with an
\* empty collection) what the adapter hands over is a quote of price 0 with
\* its own provider name.
C13_FailureIsZeroQuote ==
  (uin.kind = "adapter" /\ uout.kind # "none" /\ FailureMode(uin))
    => (uout.kind = "quote" /\ IsZeroQuoteOf(uout.quote, uin.provider))

\* a decimal string: digits, or digits, a point and digits
WellFormedDecimal(str) ==
  /\ Len(str) > 0
  /\ \/ \A i \in 1..Len(str) : str[i] \in Digits
     \/ \E k \in 2..(Len(str) - 1) :
          /\ str[k] = "."
          /\ \A i \in (1..Len(str)) \ {k} : str[i] \in Digits

\* the digits of the first n characters of str read as one integer, the
\* point left out
RECURSIVE WeightedSum(_, _)
WeightedSum(str, n) ==
  IF n = 0 THEN <<>>
  ELSE IF str[n] = "." THEN WeightedSum(str, n - 1)
  ELSE Once(WeightedSum(str, n - 1), LAMBDA upper :
         Once(MulSmall(upper, 10), LAMBDA tens :
           Once(BigOfNat(DigitVal(str[n])), LAMBDA unit : BigAdd(tens, unit))))

\* the number a well-formed decimal string denotes
DecimalValue(str) ==
  LET frac == IF \E k \in 1..Len(str) : str[k] = "."
                THEN Len(str) - (CHOOSE k \in 1..Len(str) : str[k] = ".")
                ELSE 0
  IN Once(WeightedSum(str, Len(str)), LAMBDA d : FloatOfDecimal(1, d, 0 - frac).val)

\* C18: for a 200 response that decodes as a sequence, CoinMarketCap's quote
\* carries the number its first element's decimal string denotes, and for an
\* empty sequence it is a quote of price 0 named CoinMarketCap; the parse
\* function returns that number, or fails on the empty sequence.
C18_ProviderBPrice ==
  /\ (uin.kind = "adapter" /\ uout.kind = "quote"
        /\ uin.provider = "CoinMarketCap" /\ UrlOK(uin.crypto) /\ ~uin.ctxErr
        /\ uin.resp.kind = "http" /\ uin.resp.status = StatusOK
        /\ uin.resp.body.kind = "list")
       => IF uin.resp.body.items = <<>>
            THEN IsZeroQuoteOf(uout.quote, "CoinMarketCap")
            ELSE WellFormedDecimal(uin.resp.body.items[1])
                   => /\ uout.quote.Price = DecimalValue(uin.resp.body.items[1])
                      /\ uout.quote.Source = "CoinMarketCap"
  /\ (uin.kind = "parse" /\ uout.kind = "parsed"
        /\ uin.provider = "CoinMarketCap" /\ uin.data.kind = "list")
       => IF uin.data.items = <<>>
            THEN uout.err
            ELSE WellFormedDecimal(uin.data.items[1])
                   => (~uout.err /\ uout.price = DecimalValue(uin.data.items[1]))

\* ------------------------------------------------ claims on the channel
\* C14: in every state in which the shared context is cancelled, the
\* orchestrator has observed a quote with price > 0 or the 10 s deadline has
\* elapsed; a quote of price 0 cancels nothing.
C14_CancelOnlyOnCommit == cancelled => (Gt0(result.Price) \/ Deadline)

\* how many quotes adapter p has sent
SentBy(p) == Cardinality({i \in 1..Len(written) : written[i].Source = p})

\* C15: every adapter sends at most one quote per race, and none before it
\* has built it; the channel never holds more than three quotes, no more than
\* three are ever sent, and only the orchestrator's receive steps take a
\* quote off the channel.
C15_OneSendPerAdapter ==
  /\ [](/\ \A p \in Providers :
             /\ SentBy(p) <= 1
             /\ apc[p] \in {"idle", "get", "decode", "send"} => SentBy(p) = 0
             /\ apc[p] = "sent" => SentBy(p) = 1
        /\ Len(written) <= NumAdapters
        /\ Len(ch) <= NumAdapters)
  /\ [][Len(ch') < Len(ch) => (RangeRecv \/ SelectRecv \/ DrainRecv)]_vars

\* the three adapters have sent, quotes with and without a price, and the
\* orchestrator has read none of them yet
C15_Witness ==
  /\ Len(written) = NumAdapters
  /\ Len(ch) = NumAdapters
  /\ \E i \in 1..Len(written) : Gt0(written[i].Price)
  /\ \E i \in 1..Len(written) : IsZero(written[i].Price)

\* C16: an adapter that has its quote ready always finds a free slot in the
\* buffer, also after the orchestrator has stopped reading.
C16_SendNeverBlocks ==
  \A p \in Providers : (apc[p] = "send" /\ ~closed) => Len(ch) < ChanCap

\* the orchestrator has returned with a winner, a quote nobody will read sits
\* in the buffer and another adapter is about to send
C16_Witness ==
  /\ Returned
  /\ Gt0(result.Price)
  /\ Len(ch) >= 1
  /\ \E p \in Providers : apc[p] = "send"

\* C17: no send ever hits a closed channel; the channel is closed only when
\* the three adapters have sent and called wg.Done, and close never runs on a
\* channel that is already closed.
C17_CloseAfterAllSends ==
  /\ [](/\ ~panicked
        /\ closed => /\ Len(written) = NumAdapters
                     /\ wg = 0
                     /\ \A p \in Providers : apc[p] = "exit")
  /\ [][(Closer \/ WaitClose) => ~closed]_vars

\* main.go's helper goroutine has closed the channel after the three sends,
\* while the orchestrator is still ranging over it
C17_Witness ==
  /\ impl = "main"
  /\ closed
  /\ mpc = "range"
  /\ Len(written) = NumAdapters
  /\ ~panicked
====
